---- MODULE Spec2Model ----
(***************************************************************************)
(* plumology.io.hdf.hdf_to_dataframe: one call, from argument validation   *)
(* through the scoped read of the HDF store, the per-simulation stride     *)
(* reduction or aggregation, the concatenation, the wide-to-long reshape   *)
(* and the final sort.                                                     *)
(*                                                                         *)
(* Field names are sequences of one-character strings so that              *)
(* str.rstrip('0123456789'), the stub regex of pandas.wide_to_long and the *)
(* alphabetical column sort are computed, not assumed.  Numbers are exact  *)
(* rationals n/d; NaN is a value of its own.                               *)
(*                                                                         *)
(* The HDF file starts absent.  plumed_to_hdf creates and writes it, and   *)
(* plumed_to_h5 is called on it, any number of times before                *)
(* hdf_to_dataframe is called; nothing writes the file while               *)
(* hdf_to_dataframe reads it.                                              *)
(***************************************************************************)
EXTENDS Integers, Sequences, FiniteSets, TLC

\* ---------------------------------------------------------------- bounds
MaxLen == 2        \* longest stored sequence of a simulation record
MaxStride == 2     \* largest stride passed as `reduce`

\* ---------------------------------------------------------------- names
Digits == {"0", "1", "2", "3", "4", "5", "6", "7", "8", "9"}

Alphabet == <<"0", "1", "2", "3", "4", "5", "6", "7", "8", "9", "_",
              "a", "b", "c", "d", "e", "f", "g", "h", "i", "j", "k", "l", "m",
              "n", "o", "p", "q", "r", "s", "t", "u", "v", "w", "x", "y", "z">>

\* code point order of the characters used in names
Ord(c) == CHOOSE i \in 1..Len(Alphabet) : Alphabet[i] = c

\* value of a decimal digit character
DigitVal(c) == Ord(c) - 1

time == <<"t", "i", "m", "e">>
grouper == <<"f", "f">>
weight_name == <<"w", "w">>
res_nr == <<"r", "e", "s", "_", "n", "r">>
phi0 == <<"p", "h", "i", "0">>
phi1 == <<"p", "h", "i", "1">>
psi1 == <<"p", "s", "i", "1">>
chi == <<"c", "h", "i">>
phi == <<"p", "h", "i">>
psi == <<"p", "s", "i">>

\* the name of an unnamed index level
NoName == <<>>

\* str.rstrip('0123456789')
RECURSIVE rstrip(_)
rstrip(v) ==
    IF Len(v) > 0 /\ v[Len(v)] \in Digits
    THEN rstrip(SubSeq(v, 1, Len(v) - 1))
    ELSE v

\* lexicographic order on names (Python str comparison)
RECURSIVE NameLess(_, _)
NameLess(a, b) ==
    IF Len(a) = 0 THEN Len(b) > 0
    ELSE IF Len(b) = 0 THEN FALSE
    ELSE IF a[1] = b[1] THEN NameLess(Tail(a), Tail(b))
    ELSE Ord(a[1]) < Ord(b[1])

\* int() of a string of decimal digits
RECURSIVE ParseInt(_)
ParseInt(d) ==
    IF Len(d) = 0 THEN 0
    ELSE 10 * ParseInt(SubSeq(d, 1, Len(d) - 1)) + DigitVal(d[Len(d)])

\* ---------------------------------------------------------------- values
Num(n, d) == [k |-> "num", n |-> n, d |-> d, s |-> ""]
IntV(n) == Num(n, 1)
NaN == [k |-> "nan", n |-> 0, d |-> 1, s |-> ""]
Str(s) == [k |-> "str", n |-> 0, d |-> 1, s |-> s]

\* float division x / y for x >= 0: 0/0 is NaN
Divide(x, y) ==
    IF x.k = "nan" \/ y.k = "nan" THEN NaN
    ELSE IF y.n = 0 THEN NaN
    ELSE Num(x.n * y.d, x.d * y.n)

Add(x, y) ==
    IF x.k = "nan" \/ y.k = "nan" THEN NaN
    ELSE IF x.d = y.d THEN Num(x.n + y.n, x.d)
    ELSE Num(x.n * y.d + y.n * x.d, x.d * y.d)

Mul(x, y) ==
    IF x.k = "nan" \/ y.k = "nan" THEN NaN
    ELSE Num(x.n * y.n, x.d * y.d)

\* pandas Series.sum(): missing values are skipped
RECURSIVE SeriesSum(_)
SeriesSum(v) ==
    IF Len(v) = 0 THEN IntV(0)
    ELSE IF v[Len(v)].k = "nan" THEN SeriesSum(SubSeq(v, 1, Len(v) - 1))
    ELSE Add(SeriesSum(SubSeq(v, 1, Len(v) - 1)), v[Len(v)])

\* numpy sum of an array
RECURSIVE ArraySum(_)
ArraySum(v) ==
    IF Len(v) = 0 THEN IntV(0)
    ELSE Add(ArraySum(SubSeq(v, 1, Len(v) - 1)), v[Len(v)])

\* ---------------------------------------------------------------- store
Keys == {"a", "b"}
KeyRank == [key \in Keys |-> IF key = "a" THEN 1 ELSE 2]

\* the field lists read_plumed_fields finds in the PLUMED files; every
\* file has a time column
Schemas == {
    {time, weight_name, phi0, psi1},
    {time, weight_name, chi},
    {time, weight_name, grouper},
    {time, weight_name},
    {time, phi0},
    {time} }

\* the column of field f in the PLUMED file of simulation key, n samples
\* long.  The clock of the k-th simulation starts at k-1, so that
\* simulations share time values unless the retained samples miss them;
\* its weights are k-1, k, ..., so that the first simulation starts with a
\* zero weight and the second has positive weights only.
Column(key, f, n) ==
    [p \in 1..n |->
        IF f \in {time, weight_name} THEN IntV(KeyRank[key] + p - 2)
        ELSE IntV(KeyRank[key] + p * Ord(f[Len(f)]))]

Record(key, schema, n) ==
    [f \in schema |-> Column(key, f, n)]

\* the PLUMED files handed to plumed_to_hdf: a path that names no file, or
\* a file with the fields of a schema and n samples
NoFile == [found |-> FALSE, schema |-> {}, n |-> 0]

PlumedFiles ==
    {NoFile} \cup
    {[found |-> TRUE, schema |-> sc, n |-> n] : sc \in Schemas, n \in 1..MaxLen}

\* the arguments files and keys of plumed_to_hdf, as lists
FileLists == {<<>>} \cup {<<file>> : file \in PlumedFiles}
KeyLists == {<<>>, <<"a">>, <<"b">>, <<"a", "b">>}

\* the field_map arguments: None, psi1 stored under the name phi1, and
\* psi1 stored under the name phi0, which the file may hold already
FieldMaps == {<<>>, [f \in {psi1} |-> phi1], [f \in {psi1} |-> phi0]}

\* Lines 56-59: the name a field is stored under
Mapped(f, field_map) == IF f \in DOMAIN field_map THEN field_map[f] ELSE f

\* Lines 83-96: the datasets of the group written for one PLUMED file whose
\* fields and columns are those of rec
Datasets(rec, field_map) ==
    [g \in {Mapped(f, field_map) : f \in DOMAIN rec} |->
        rec[CHOOSE f \in DOMAIN rec : Mapped(f, field_map) = g]]

\* Lines 47-49: the content of the file as h5py.File(hdf_file, fmode) opens
\* it, 'w' truncating and 'a' keeping what is there
Opened(st, overwrite) == IF overwrite THEN <<>> ELSE st

\* Line 62 and lines 93-96: the file st with the group key holding datasets
WithGroup(st, key, datasets) ==
    [x \in DOMAIN st \cup {key} |-> IF x = key THEN datasets ELSE st[x]]

\* Lines 51-96: the loop over zip(keys, files) on the open file st.
\* read_plumed_fields fails on a path that names no file; create_group
\* raises ValueError on a key the file holds already; pd.read_csv raises
\* ValueError when the renamed fields hold a name twice, the group being
\* created and still empty.  Every exception leaves the file with what
\* was written before it.
RECURSIVE WriteLoop(_, _, _, _)
WriteLoop(st, keys, files, field_map) ==
    IF Len(keys) = 0 \/ Len(files) = 0 THEN [err |-> "none", st |-> st]
    ELSE LET key == keys[1]
             file == files[1]
             fields == {Mapped(f, field_map) : f \in file.schema}
         IN IF ~file.found THEN [err |-> "OSError", st |-> st]
            ELSE IF key \in DOMAIN st THEN [err |-> "ValueError", st |-> st]
            ELSE IF Cardinality(fields) # Cardinality(file.schema)
            THEN [err |-> "ValueError", st |-> WithGroup(st, key, <<>>)]
            ELSE WriteLoop(
                    WithGroup(st, key,
                        Datasets(Record(key, file.schema, file.n), field_map)),
                    Tail(keys), Tail(files), field_map)

\* ---------------------------------------------------------------- tables
\* A DataFrame: column labels in order, index level names in order, and the
\* rows in order, each with its index tuple ix and its cells c.
Range(q) == {q[i] : i \in 1..Len(q)}

Table(cols, idx, rows) == [cols |-> cols, idx |-> idx, rows |-> rows]
EmptyTable == Table(<<>>, <<>>, <<>>)

Ok(t) == [err |-> "none", t |-> t]
Raise(e) == [err |-> e, t |-> EmptyTable]

\* the elements of q that satisfy Keep, in order
RECURSIVE SelectNames(_, _)
SelectNames(q, keep) ==
    IF Len(q) = 0 THEN <<>>
    ELSE IF q[1] \in keep THEN <<q[1]>> \o SelectNames(Tail(q), keep)
    ELSE SelectNames(Tail(q), keep)

\* the names of set S as a sequence, ascending or descending
RECURSIVE Ascending(_)
Ascending(S) ==
    IF S = {} THEN <<>>
    ELSE LET m == CHOOSE x \in S : \A y \in S \ {x} : NameLess(x, y)
         IN <<m>> \o Ascending(S \ {m})

Reverse(q) == [i \in 1..Len(q) |-> q[Len(q) + 1 - i]]

Enumerate(S, desc) == IF desc THEN Reverse(Ascending(S)) ELSE Ascending(S)

\* v[::step] of a stored sequence, step >= 1
Slice(v, step) ==
    [i \in 1..((Len(v) + step - 1) \div step) |-> v[(i - 1) * step + 1]]

\* elementwise product of two arrays of the same length
Product(v, w) == [p \in 1..Len(v) |-> Mul(v[p], w[p])]

\* ---------------------------------------------------------------- reducer
\* Lines 139-146: the stride-mode frame of one simulation.  fs is the order
\* in which store[key].items() yields the fields of the record rec.  h5py
\* rejects the slice of a dataset with a step below 1 (ValueError); a
\* field named like the grouper is overwritten by the key.
StrideFrame(key, rec, fs, step) ==
    LET m == IF Len(fs) = 0 THEN 0 ELSE Len(Slice(rec[fs[1]], step))
        cell(i, f) == Slice(rec[f], step)[i]
        total == SeriesSum([i \in 1..m |-> cell(i, weight_name)])
        cols == IF grouper \in Range(fs) THEN fs ELSE fs \o <<grouper>>
        row(i) ==
            [ix |-> <<IntV(i - 1)>>,
             c |-> [f \in Range(cols) |->
                      IF f = grouper THEN Str(key)
                      ELSE IF f = weight_name THEN Divide(cell(i, f), total)
                      ELSE cell(i, f)]]
    IN IF Len(fs) > 0 /\ step < 1 THEN Raise("ValueError")
       ELSE IF weight_name \notin Range(fs) THEN Raise("KeyError")
       ELSE Ok(Table(cols, <<NoName>>, [i \in 1..m |-> row(i)]))

\* the aggregator applied to an array: the call of None raises TypeError,
\* sum adds the elements up, and numpy.ndarray.item returns the element of
\* an array of size 1 and raises ValueError on any other array
Apply(agg, v) ==
    IF agg = "None" THEN [err |-> "TypeError", val |-> NaN]
    ELSE IF agg = "sum" THEN [err |-> "none", val |-> ArraySum(v)]
    ELSE IF Len(v) = 1 THEN [err |-> "none", val |-> v[1]]
    ELSE [err |-> "ValueError", val |-> NaN]

\* Lines 158-163: the array handed to the aggregator for field k
Argument(rec, k, wt) ==
    IF wt THEN Product(rec[k], rec[weight_name]) ELSE rec[k]

\* Lines 150-163: the loop of the aggregate-mode path over the fields fs
\* still to visit; raw is the dict built so far (labels rcols, values rc),
\* calls the number of times the aggregator was invoked.
RECURSIVE AggLoop(_, _, _, _, _, _, _)
AggLoop(rec, fs, agg, wt, rcols, rc, calls) ==
    IF Len(fs) = 0 THEN [err |-> "none", cols |-> rcols, c |-> rc, calls |-> calls]
    ELSE LET k == fs[1] IN
         IF k \in {time, weight_name}
         THEN AggLoop(rec, Tail(fs), agg, wt, rcols, rc, calls)
         ELSE IF wt /\ weight_name \notin DOMAIN rec
         THEN [err |-> "KeyError", cols |-> rcols, c |-> rc, calls |-> calls]
         ELSE LET r == Apply(agg, Argument(rec, k, wt))
              IN IF r.err # "none"
                 THEN [err |-> r.err, cols |-> rcols, c |-> rc, calls |-> calls + 1]
                 ELSE AggLoop(rec, Tail(fs), agg, wt,
                         IF k \in Range(rcols) THEN rcols ELSE rcols \o <<k>>,
                         [f \in DOMAIN rc \cup {k} |->
                            IF f = k THEN r.val ELSE rc[f]],
                         calls + 1)

\* Lines 150-166: the aggregate-mode frame of one simulation, one row
\* indexed by the simulation key; line 165 puts the key under the grouper,
\* over the scalar of a field of that name.
AggregateFrame(key, rec, fs, agg, wt) ==
    LET r == AggLoop(rec, fs, agg, wt, <<>>, <<>>, 0)
        cols == IF grouper \in Range(r.cols) THEN r.cols ELSE r.cols \o <<grouper>>
        c == [f \in Range(cols) |-> IF f = grouper THEN Str(key) ELSE r.c[f]]
    IN IF r.err # "none" THEN [err |-> r.err, t |-> EmptyTable, calls |-> r.calls]
       ELSE [err |-> "none",
             t |-> Table(cols, <<NoName>>, <<[ix |-> <<Str(key)>>, c |-> c]>>),
             calls |-> r.calls]

\* ---------------------------------------------------------------- combiner
\* the column labels of the frames in order of first appearance
RECURSIVE UnionCols(_)
UnionCols(fr) ==
    IF Len(fr) = 0 THEN <<>>
    ELSE LET rest == UnionCols(SubSeq(fr, 1, Len(fr) - 1))
             last == fr[Len(fr)].cols
         IN rest \o SelectNames(last, Range(last) \ Range(rest))

RECURSIVE StackRows(_, _)
StackRows(fr, cols) ==
    IF Len(fr) = 0 THEN <<>>
    ELSE LET f == fr[1]
             widen(r) == [ix |-> r.ix,
                          c |-> [x \in Range(cols) |->
                                   IF x \in Range(f.cols) THEN r.c[x] ELSE NaN]]
         IN [i \in 1..Len(f.rows) |-> widen(f.rows[i])] \o StackRows(Tail(fr), cols)

\* Line 170: pd.concat(frames)
Concat(fr) ==
    IF Len(fr) = 0 THEN Raise("ValueError")
    ELSE LET cols == UnionCols(fr)
         IN Ok(Table(cols, fr[1].idx, StackRows(fr, cols)))

\* ---------------------------------------------------------------- reshaper
\* Lines 174-175: the stub names, one per base of an observable column
Stubs(t) == {rstrip(v) : v \in Range(t.cols) \ {time, grouper, weight_name}}

\* pandas wide_to_long get_var_names: the regex ^stub\d+$
Matches(col, stub) ==
    /\ Len(col) > Len(stub)
    /\ SubSeq(col, 1, Len(stub)) = stub
    /\ \A p \in (Len(stub) + 1)..Len(col) : col[p] \in Digits

\* the integer the suffix of col after stub is cast to
SuffixOf(col, stub) == ParseInt(SubSeq(col, Len(stub) + 1, Len(col)))

\* DataFrame.duplicated().any() on the column i
HasDuplicates(t, i) ==
    \E a, b \in 1..Len(t.rows) : a # b /\ t.rows[a].c[i] = t.rows[b].c[i]

RECURSIVE Flatten(_)
Flatten(qq) == IF Len(qq) = 0 THEN <<>> ELSE qq[1] \o Flatten(Tail(qq))

\* the elements of q in order of first appearance (Index.union, sort=False)
RECURSIVE FirstSeen(_)
FirstSeen(q) ==
    IF Len(q) = 0 THEN <<>>
    ELSE LET rest == FirstSeen(SubSeq(q, 1, Len(q) - 1))
         IN IF q[Len(q)] \in Range(rest) THEN rest ELSE Append(rest, q[Len(q)])

\* pandas wide_to_long melt_stub and concat(_melted, axis=1): the index of
\* the melted frame as pairs <<row of t, residue number>>.  Every stub
\* melts its value columns, in the column order of t, column by column
\* over the rows of t; the indexes are united in order of first appearance.
MeltedIndex(t, stubs) ==
    FirstSeen(Flatten([b \in 1..Len(stubs) |->
        LET value_vars == SelectNames(t.cols,
                {c \in Range(t.cols) : Matches(c, stubs[b])})
        IN Flatten([v \in 1..Len(value_vars) |->
              [a \in 1..Len(t.rows) |->
                 <<a, SuffixOf(value_vars[v], stubs[b])>>]])]))

\* Line 179: pd.wide_to_long(t, stubs, i=i, j='res_nr') as pandas 2.x does
\* it; stubs is the list made of the set of stub names, in the order the
\* set yields them.  pandas rejects a stub that is also a column label and
\* id values that do not identify the rows (ValueError both), melts every
\* stub's columns over the id column, concatenates the melted frames on
\* (i, res_nr), which fails with ValueError on an empty list of stubs
\* (pandas 1.x: IndexError), and joins the columns that are no value
\* variables, taken in sorted order (columns.difference), onto the melted
\* frame, whose row order the result keeps.
WideToLong(t, stubs, i) ==
    LET vars == {c \in Range(t.cols) : \E st \in Range(stubs) : Matches(c, st)}
        id_vars == Ascending(Range(t.cols) \ vars)
        kept == SelectNames(id_vars, Range(id_vars) \ {i})
        melted == MeltedIndex(t, stubs)
        value(r, st, k) ==
            LET from == {c \in vars : Matches(c, st) /\ SuffixOf(c, st) = k}
            IN IF from = {} THEN NaN ELSE r.c[CHOOSE c \in from : TRUE]
        long(r, k) ==
            [ix |-> <<r.c[i], IntV(k)>>,
             c |-> [x \in Range(kept) \cup Range(stubs) |->
                      IF x \in Range(stubs) THEN value(r, x, k) ELSE r.c[x]]]
    IN IF \E c \in Range(t.cols) : c \in Range(stubs) THEN Raise("ValueError")
       ELSE IF i \notin Range(t.cols) THEN Raise("KeyError")
       ELSE IF HasDuplicates(t, i) THEN Raise("ValueError")
       ELSE IF Len(stubs) = 0 THEN Raise("ValueError")
       ELSE Ok(Table(kept \o stubs, <<i, res_nr>>,
                     [p \in 1..Len(melted) |->
                        long(t.rows[melted[p][1]], melted[p][2])]))

\* df.set_index([col], append=True)
SetIndexAppend(t, col) ==
    LET cols == SelectNames(t.cols, Range(t.cols) \ {col})
    IN Table(cols, t.idx \o <<col>>,
             [a \in 1..Len(t.rows) |->
                [ix |-> t.rows[a].ix \o <<t.rows[a].c[col]>>,
                 c |-> [x \in Range(cols) |-> t.rows[a].c[x]]]])

\* del df[col]
DelColumn(t, col) ==
    LET cols == SelectNames(t.cols, Range(t.cols) \ {col})
    IN Table(cols, t.idx,
             [a \in 1..Len(t.rows) |->
                [ix |-> t.rows[a].ix,
                 c |-> [x \in Range(cols) |-> t.rows[a].c[x]]]])

\* order of two index values of one level: numbers by value, keys as strings
ValLess(x, y) ==
    IF x.k = "str" THEN KeyRank[x.s] < KeyRank[y.s] ELSE x.n < y.n

RECURSIVE IndexLess(_, _)
IndexLess(a, b) ==
    IF Len(a) = 0 THEN FALSE
    ELSE IF a[1] = b[1] THEN IndexLess(Tail(a), Tail(b))
    ELSE ValLess(a[1], b[1])

\* stable insertion of row r into the sorted rows q
RECURSIVE InsertRow(_, _)
InsertRow(q, r) ==
    IF Len(q) = 0 THEN <<r>>
    ELSE IF IndexLess(r.ix, q[1].ix) THEN <<r>> \o q
    ELSE <<q[1]>> \o InsertRow(Tail(q), r)

RECURSIVE SortedRows(_)
SortedRows(q) ==
    IF Len(q) = 0 THEN <<>>
    ELSE InsertRow(SortedRows(SubSeq(q, 1, Len(q) - 1)), q[Len(q)])

\* df.sort_index(axis=1)
SortColumns(t) == Table(Ascending(Range(t.cols)), t.idx, t.rows)

\* SortIndex with the row sort left out
SortIndexSkipped(t) == t

\* df.sort_index()
SortIndex(t) == Table(t.cols, t.idx, SortedRows(t.rows))

\* Lines 172-182
Reshape(t, rs, red, desc) ==
    IF rs THEN WideToLong(t, Enumerate(Stubs(t), desc),
                          IF red # <<>> THEN time ELSE grouper)
    ELSE Ok(t)

\* DropBookkeeping with the grouper left among the columns in stride mode
DropBookkeepingNoIndex(t, red) ==
    IF red # <<>>
    THEN IF time \in Range(t.cols) THEN DelColumn(t, time) ELSE t
    ELSE IF grouper \in Range(t.cols) THEN DelColumn(t, grouper) ELSE t

\* Lines 185-191: remove superfluous columns
DropBookkeeping(t, red) ==
    IF red # <<>>
    THEN LET u == SetIndexAppend(t, grouper)
         IN IF time \in Range(u.cols) THEN DelColumn(u, time) ELSE u
    ELSE IF grouper \in Range(t.cols) THEN DelColumn(t, grouper) ELSE t

\* Line 193
Finish(t, red) == SortIndex(SortColumns(DropBookkeeping(t, red)))

\* ---------------------------------------------------------------- whole call
\* Lines 136-168: the frames of the keys in the order the store yields
\* them, every record yielding its fields ascending or descending
RECURSIVE ReadFrames(_, _, _, _, _, _)
ReadFrames(st, order, red, agg, wt, fdesc) ==
    IF Len(order) = 0 THEN [err |-> "none", frames |-> <<>>]
    ELSE LET key == order[1]
             fs == Enumerate(DOMAIN st[key], fdesc)
             r == IF red # <<>> THEN StrideFrame(key, st[key], fs, red[1])
                  ELSE AggregateFrame(key, st[key], fs, agg, wt)
             rest == ReadFrames(st, Tail(order), red, agg, wt, fdesc)
         IN IF r.err # "none" THEN [err |-> r.err, frames |-> <<>>]
            ELSE IF rest.err # "none" THEN rest
            ELSE [err |-> "none", frames |-> <<r.t>> \o rest.frames]

\* Lines 132-193: the table hdf_to_dataframe returns for a readable store
\* st when the store yields its keys in the given order, its fields in
\* order fdesc and the set of stubs in order sdesc
hdf_to_dataframe(st, red, agg, wt, rs, order, fdesc, sdesc) ==
    LET fr == ReadFrames(st, order, red, agg, wt, fdesc)
        cat == Concat(fr.frames)
        long == Reshape(cat.t, rs, red, sdesc)
    IN IF fr.err # "none" THEN Raise(fr.err)
       ELSE IF cat.err # "none" THEN cat
       ELSE IF long.err # "none" THEN long
       ELSE Ok(Finish(long.t, red))

\* ---------------------------------------------------------------- the call
VARIABLES
    store,       \* content of the HDF file: key -> field -> sequence
    fileOk,      \* whether h5py.File(hdf_file, 'r') can open the file
    reduce,      \* <<>> for None, <<s>> for the stride s
    aggregator,  \* "None" or the name of the function
    weight,      \* the weight flag
    reshape,     \* the reshape flag
    pc,          \* position in hdf_to_dataframe
    isOpen,      \* the store is open
    opened,      \* the store has been opened during this call
    todo,        \* keys that store.keys() has yet to yield, in its order
    frames,      \* the list frames
    raw_frame,   \* the concatenated frame
    df,          \* the frame after the reshape step
    result,      \* the returned table
    error,       \* the exception that left the call, "none" if none
    calls        \* invocations of the aggregator so far

vars == <<store, fileOk, reduce, aggregator, weight, reshape, pc, isOpen,
          opened, todo, frames, raw_frame, df, result, error, calls>>

config == <<store, fileOk, reduce, aggregator, weight, reshape>>

call == <<pc, isOpen, opened, todo, frames, raw_frame, df, result, calls>>

\* the strides passed as reduce, the step 0 that no slice accepts included
Strides == 0..MaxStride

\* the functions passed as aggregator: sum and numpy.ndarray.item
Aggregators == {"sum", "item"}

\* all orders in which the keys of set S can be yielded
Orders(S) ==
    {q \in [1..Cardinality(S) -> S] : \A a, b \in 1..Cardinality(S) : a # b => q[a] # q[b]}

\* no file yet, no call made: the parameters hold their defaults
Init ==
    /\ fileOk = FALSE
    /\ store = <<>>
    /\ reduce = <<>>
    /\ aggregator = "None"
    /\ weight = TRUE
    /\ reshape = TRUE
    /\ pc = "start"
    /\ isOpen = FALSE
    /\ opened = FALSE
    /\ todo = <<>>
    /\ frames = <<>>
    /\ raw_frame = EmptyTable
    /\ df = EmptyTable
    /\ result = EmptyTable
    /\ error = "none"
    /\ calls = 0

\* Conflict with the check left out
ConflictUnchecked(red, agg) == FALSE

\* Line 127: reduce is not None and aggregator is not None
Conflict(red, agg) == red # <<>> /\ agg # "None"

\* Lines 15-96: plumed_to_hdf(files, hdf_file, keys, field_map, columnwise,
\* overwrite) with files and keys given as lists; columnwise changes how
\* the columns are read, not what is written.  Lists of different length
\* raise before the HDF file is touched.  Otherwise the file is created,
\* or truncated when overwrite is set, and keeps what the loop wrote when
\* the loop raises.
PlumedToHdf ==
    /\ pc = "start"
    /\ \E keys \in KeyLists, files \in FileLists, field_map \in FieldMaps,
          overwrite \in BOOLEAN :
         IF Len(keys) # Len(files)
         THEN error' = "ValueError" /\ UNCHANGED <<store, fileOk>>
         ELSE LET w == WriteLoop(Opened(store, overwrite), keys, files, field_map)
              IN fileOk' = TRUE /\ store' = w.st /\ error' = w.err
    /\ UNCHANGED <<reduce, aggregator, weight, reshape, call>>

\* the arguments of plumed_to_h5: files is a list of paths or one path of
\* 0 to 2 characters, which may name a PLUMED file (with at least one row);
\* func is None, a callable or a list of callables; kwargs is None, a
\* mapping without the key 0, a mapping of 0 to keyword arguments, or a
\* list of mappings
H5Files == {"list", "", "x", "xy"}
H5Funcs == {"None", "callable", "list"}
H5Kwargs == {"None", "mapping", "mapping0", "list"}

\* Lines 220-258: the exception that ends plumed_to_h5.  Lists are wrapped
\* in lists (lines 221-226).  Line 227 subscripts func: None and a
\* callable raise TypeError; a list of callables has become a list of
\* length 1, which len(files) must equal: the wrapped list of paths, or a
\* path of one character.  The loop then takes the list of paths or the
\* character as the file to read (lines 235-246), and line 253 subscripts
\* kwargs (None: TypeError, no key 0: KeyError) and calls func[0], a list
\* (TypeError).  Line 258, chunk.to_hdf, is never reached.
H5Error(files, found, func, kwargs) ==
    IF func # "list" THEN "TypeError"
    ELSE IF files \notin {"list", "x"} THEN "ValueError"
    ELSE IF files = "list" THEN "TypeError"
    ELSE IF ~found THEN "OSError"
    ELSE IF kwargs = "mapping" THEN "KeyError"
    ELSE "TypeError"

\* Lines 196-261: plumed_to_h5(files, hdf_file, func, ..., kwargs); the
\* HDF file is left as it is
PlumedToH5 ==
    /\ pc = "start"
    /\ \E files \in H5Files, found \in BOOLEAN, func \in H5Funcs,
          kwargs \in H5Kwargs :
         error' = H5Error(files, found, func, kwargs)
    /\ UNCHANGED <<config, call>>

\* Lines 99-130: the call of hdf_to_dataframe with its arguments and the
\* check of the arguments
CheckArguments ==
    /\ pc = "start"
    /\ reduce' \in {<<>>} \cup {<<s>> : s \in Strides}
    /\ aggregator' \in {"None"} \cup Aggregators
    /\ weight' \in BOOLEAN
    /\ reshape' \in BOOLEAN
    /\ IF Conflict(reduce', aggregator')
       THEN pc' = "raised" /\ error' = "TypeError"
       ELSE pc' = "open" /\ error' = "none"
    /\ UNCHANGED <<store, fileOk, isOpen, opened, todo, frames, raw_frame, df, result, calls>>

\* Lines 132-136: entering the with block; store.keys() fixes its order
OpenStore ==
    /\ pc = "open"
    /\ IF fileOk
       THEN /\ pc' = "iter"
            /\ isOpen' = TRUE
            /\ opened' = TRUE
            /\ todo' \in Orders(DOMAIN store)
            /\ error' = error
       ELSE /\ pc' = "raised"
            /\ error' = "OSError"
            /\ UNCHANGED <<isOpen, opened, todo>>
    /\ UNCHANGED <<config, frames, raw_frame, df, result, calls>>

\* Lines 139-146 and 168: one iteration of the loop in stride mode; an
\* exception leaves the with block, which closes the store
ReduceKey ==
    /\ pc = "iter" /\ todo # <<>> /\ reduce # <<>>
    /\ \E desc \in BOOLEAN :
         LET key == todo[1]
             r == StrideFrame(key, store[key],
                              Enumerate(DOMAIN store[key], desc), reduce[1])
         IN IF r.err # "none"
            THEN /\ pc' = "raised" /\ error' = r.err /\ isOpen' = FALSE
                 /\ UNCHANGED <<todo, frames>>
            ELSE /\ frames' = Append(frames, r.t) /\ todo' = Tail(todo)
                 /\ UNCHANGED <<pc, error, isOpen>>
    /\ UNCHANGED <<config, opened, raw_frame, df, result, calls>>

\* Lines 150-168: one iteration of the loop in aggregate mode
AggregateKey ==
    /\ pc = "iter" /\ todo # <<>> /\ reduce = <<>>
    /\ \E desc \in BOOLEAN :
         LET key == todo[1]
             r == AggregateFrame(key, store[key],
                                 Enumerate(DOMAIN store[key], desc),
                                 aggregator, weight)
         IN /\ calls' = calls + r.calls
            /\ IF r.err # "none"
               THEN /\ pc' = "raised" /\ error' = r.err /\ isOpen' = FALSE
                    /\ UNCHANGED <<todo, frames>>
               ELSE /\ frames' = Append(frames, r.t) /\ todo' = Tail(todo)
                    /\ UNCHANGED <<pc, error, isOpen>>
    /\ UNCHANGED <<config, opened, raw_frame, df, result>>

\* CloseStore for a store opened outside a with block and never closed
CloseStoreLeak ==
    /\ pc = "iter" /\ todo = <<>>
    /\ pc' = "concat"
    /\ UNCHANGED <<config, isOpen, opened, todo, frames, raw_frame, df, result, error, calls>>

\* Line 133: leaving the with block after the last key
CloseStore ==
    /\ pc = "iter" /\ todo = <<>>
    /\ isOpen' = FALSE
    /\ pc' = "concat"
    /\ UNCHANGED <<config, opened, todo, frames, raw_frame, df, result, error, calls>>

\* Line 170
Combine ==
    /\ pc = "concat"
    /\ LET r == Concat(frames)
       IN IF r.err # "none"
          THEN pc' = "raised" /\ error' = r.err /\ UNCHANGED raw_frame
          ELSE pc' = "reshape" /\ raw_frame' = r.t /\ UNCHANGED error
    /\ UNCHANGED <<config, isOpen, opened, todo, frames, df, result, calls>>

\* Lines 172-182; the list made of the set of stubs has either order
ReshapeFrame ==
    /\ pc = "reshape"
    /\ \E desc \in BOOLEAN :
         LET r == Reshape(raw_frame, reshape, reduce, desc)
         IN IF r.err # "none"
            THEN pc' = "raised" /\ error' = r.err /\ UNCHANGED df
            ELSE pc' = "finish" /\ df' = r.t /\ UNCHANGED error
    /\ UNCHANGED <<config, isOpen, opened, todo, frames, raw_frame, result, calls>>

\* Lines 184-193
Return ==
    /\ pc = "finish"
    /\ result' = Finish(df, reduce)
    /\ pc' = "returned"
    /\ UNCHANGED <<config, isOpen, opened, todo, frames, raw_frame, df, error, calls>>

Next ==
    \/ PlumedToHdf
    \/ PlumedToH5
    \/ CheckArguments
    \/ OpenStore
    \/ ReduceKey
    \/ AggregateKey
    \/ CloseStore
    \/ Combine
    \/ ReshapeFrame
    \/ Return

Spec == Init /\ [][Next]_vars

\* ---------------------------------------------------------------- claims
Finished == pc \in {"returned", "raised"}
StrideMode == reduce # <<>> /\ aggregator = "None"
AggregateMode == reduce = <<>> /\ aggregator # "None"

\* C1: with both reduce and aggregator given the call raises the TypeError
\* of the argument check, whatever the other arguments and the store, and
\* the store is then never opened nor read.
C1_ConflictRejectedBeforeOpen ==
    (reduce # <<>> /\ aggregator # "None" /\ pc # "start") =>
        /\ pc = "raised" /\ error = "TypeError"
        /\ ~opened /\ ~isOpen /\ frames = <<>> /\ todo = <<>> /\ calls = 0

C1_Witness ==
    /\ reduce # <<>> /\ aggregator # "None" /\ pc = "raised"
    /\ Cardinality(DOMAIN store) = 2 /\ weight /\ reshape

\* C2: with neither reduce nor aggregator the call fails with a dedicated
\* MissingAggregator error, the absent aggregator is never invoked and no
\* table is returned.
C2_MissingAggregatorGuard ==
    (Finished /\ fileOk /\ reduce = <<>> /\ aggregator = "None") =>
        /\ pc = "raised" /\ error = "MissingAggregator" /\ calls = 0

\* the rows of table t that belong to simulation key (the grouper is the
\* last index level of a stride-mode result)
RowsOf(t, key) ==
    {a \in 1..Len(t.rows) : t.rows[a].ix[Len(t.idx)] = Str(key)}

\* the sum of the weight cells of the rows in set S of table t
RECURSIVE WeightTotal(_, _)
WeightTotal(t, S) ==
    IF S = {} THEN IntV(0)
    ELSE LET a == CHOOSE x \in S : TRUE
             w == t.rows[a].c[weight_name]
             rest == WeightTotal(t, S \ {a})
         IN IF w.k = "nan" THEN rest ELSE Add(rest, w)

IsOne(x) == x.k = "num" /\ x.d # 0 /\ x.n = x.d

\* C3: in stride mode the weights of the rows retained for a simulation
\* sum to 1 in the returned table, whatever the weights and the stride,
\* all-zero retained weights included.  A long table repeats the retained
\* rows once per residue index: there the sum is taken over the rows of
\* one residue index.
C3_WeightsSumToOne ==
    (pc = "returned" /\ reduce # <<>>) =>
        \A key \in DOMAIN store :
            IF reshape
            THEN \A a \in RowsOf(result, key) :
                    IsOne(WeightTotal(result,
                        {b \in RowsOf(result, key) :
                            result.rows[b].ix[2] = result.rows[a].ix[2]}))
            ELSE IsOne(WeightTotal(result, RowsOf(result, key)))

\* the scalar the aggregate-mode path owes for field f of simulation key
RECURSIVE Weighted(_, _, _)
Weighted(v, w, p) ==
    IF p > Len(v) THEN 0 ELSE v[p].n * w[p].n + Weighted(v, w, p + 1)

RECURSIVE Plain(_, _)
Plain(v, p) == IF p > Len(v) THEN 0 ELSE v[p].n + Plain(v, p + 1)

Owed(key, f) ==
    IF weight THEN IntV(Weighted(store[key][f], store[key][weight_name], 1))
    ELSE IntV(Plain(store[key][f], 1))

Observables(key) == DOMAIN store[key] \ {time, weight_name}

\* C4: with the aggregator sum every simulation read so far has
\* contributed one frame of exactly one row, indexed by its key, that holds
\* for every field other than time and the weight field the scalar
\* sum(values * weights) when weight is set and sum(values) otherwise, and
\* nothing for time and weight; the wide table returned keeps that one row
\* per simulation.
C4_AggregateScalars ==
    (AggregateMode /\ aggregator = "sum") =>
        /\ \A i \in 1..Len(frames) :
              LET fr == frames[i] IN
              /\ Len(fr.rows) = 1
              /\ fr.rows[1].ix[1].k = "str"
              /\ LET key == fr.rows[1].ix[1].s IN
                 /\ key \in DOMAIN store
                 /\ \A j \in 1..Len(frames) : frames[j].rows[1].ix = fr.rows[1].ix => j = i
                 /\ Range(fr.cols) = Observables(key) \cup {grouper}
                 /\ \A f \in Observables(key) : fr.rows[1].c[f] = Owed(key, f)
        /\ (pc = "returned" /\ ~reshape) =>
              /\ Len(result.rows) = Cardinality(DOMAIN store)
              /\ \A key \in DOMAIN store :
                    \E a \in 1..Len(result.rows) :
                        /\ result.rows[a].ix = <<Str(key)>>
                        /\ \A f \in Observables(key) :
                              result.rows[a].c[f] = Owed(key, f)
              /\ Range(result.cols) \cap {time, weight_name} = {}

\* the keys of the store in ascending order
RECURSIVE SortedKeys(_)
SortedKeys(S) ==
    IF S = {} THEN <<>>
    ELSE LET m == CHOOSE x \in S : \A y \in S : KeyRank[x] <= KeyRank[y]
         IN <<m>> \o SortedKeys(S \ {m})

\* C5: the table returned is the table the call returns when the store
\* yields its keys, its fields and the stubs in ascending order, whatever
\* order they were yielded in.
C5_OrderIndependent ==
    pc = "returned" =>
        LET canon == hdf_to_dataframe(store, reduce, aggregator, weight, reshape,
                                      SortedKeys(DOMAIN store), FALSE, FALSE)
        IN canon.err = "none" /\ result = canon.t

C5_Witness ==
    /\ pc = "returned" /\ reshape /\ Len(frames) = 2
    /\ frames[1].rows[1].c[grouper] = Str("b")
    /\ frames[1].cols # Ascending(Range(frames[1].cols))
    /\ Len(result.cols) > 1 /\ Len(result.rows) > 2

\* C6: the store is open only while the loop over its keys runs: it is
\* closed when the call has ended, by return or by any exception, and
\* while the frames are concatenated, reshaped and sorted.
C6_StoreClosedOnExit ==
    /\ isOpen => (pc = "iter" /\ opened)
    /\ pc \in {"raised", "returned", "concat", "reshape", "finish"} => ~isOpen

C6_Witness ==
    /\ pc = "raised" /\ opened /\ ~isOpen
    /\ aggregator = "item" /\ error = "ValueError" /\ calls > 0
    /\ Len(frames) = 1

\* C7: with weight set and exactly one of reduce and aggregator given, a
\* store with a record that lacks the weight field makes the call raise.
C7_MissingWeightRaises ==
    (Finished /\ fileOk /\ weight /\ (StrideMode \/ AggregateMode)
        /\ \E key \in DOMAIN store : weight_name \notin DOMAIN store[key]) =>
        pc = "raised"

\* the bases and residue numbers of the observable fields of the store
AllFields == UNION {DOMAIN store[key] : key \in DOMAIN store}
Bases == {rstrip(f) : f \in AllFields \ {time, grouper, weight_name}}
Residues ==
    {ParseInt(SubSeq(f, Len(rstrip(f)) + 1, Len(f))) :
        f \in AllFields \ {time, grouper, weight_name}}

ResidueLevel(t) == {t.rows[a].ix[2].n : a \in 1..Len(t.rows)}

\* C8 as stated: with reshape the columns of the result are exactly the
\* observable bases, in both modes, and the residue level takes exactly
\* the suffix values present.
C8_ColumnsAreBases ==
    (pc = "returned" /\ reshape) =>
        /\ Range(result.cols) = Bases
        /\ ResidueLevel(result) = Residues

\* C8 as amended: with reshape the columns of the result are the
\* observable bases in aggregate mode, and the observable bases plus the
\* weight field in stride mode; no time or grouper column remains, and the
\* residue level takes exactly the suffix values present.
C8_ColumnsAreBasesAndWeight ==
    (pc = "returned" /\ reshape) =>
        /\ Range(result.cols) =
              IF reduce # <<>> THEN Bases \cup {weight_name} ELSE Bases
        /\ result.idx[2] = res_nr
        /\ ResidueLevel(result) = Residues

C8_Witness ==
    /\ pc = "returned" /\ reshape /\ reduce # <<>>
    /\ Bases = {phi, psi} /\ Residues = {0, 1}
    /\ Len(result.rows) > 2

\* C9: a field without trailing digits is accepted by the reshape step: in
\* aggregate mode without weighting the call returns and the field's
\* values are in the column named by its base.
C9_ScalarFieldReshapes ==
    (Finished /\ fileOk /\ AggregateMode /\ ~weight /\ reshape
        /\ \E key \in DOMAIN store : chi \in DOMAIN store[key]) =>
        /\ pc = "returned"
        /\ chi \in Range(result.cols)

\* C10: in stride mode the result has the index (time, res_nr, grouper)
\* with reshape, and without reshape still carries time as a column or an
\* index level next to the grouper level; in aggregate mode the grouper
\* column is gone and the key is an index level.
C10_TimeKept ==
    pc = "returned" =>
        IF reduce # <<>>
        THEN /\ result.idx[Len(result.idx)] = grouper
             /\ reshape => result.idx = <<time, res_nr, grouper>>
             /\ ~reshape => time \in Range(result.cols) \cup Range(result.idx)
        ELSE /\ grouper \notin Range(result.cols)
             /\ \A a \in 1..Len(result.rows) : result.rows[a].ix[1].k = "str"

====
